---- MODULE Spec2Model ----
(***************************************************************************)
(* restapy: filter-schema synthesis (filters.py), predicate compilation,   *)
(* query assembly and CRUD facade (db.py), bulk assignment (models.py) and *)
(* pagination metadata (responses.py).                                     *)
(*                                                                         *)
(* Python strings are sequences of one-character strings, so that name     *)
(* building (field_names), name parsing (parse_filter), tokenising         *)
(* (str.split) and pattern matching act on characters.                     *)
(***************************************************************************)
EXTENDS Integers, Sequences, FiniteSets, TLC

VARIABLES
    model,      \* the SQLModel class: field name -> declaration
    schema,     \* the class QueryPars.build returned, or Absent
    filters,    \* the parameter instance of the request, or Absent
    facade,     \* the names of the methods the DbInterface subclass defines
    store,      \* the table: a sequence of rows, in the store's own order
    session,    \* what the session was asked to do, in order
    outcome     \* what the last operation returned or raised

vars == <<model, schema, filters, facade, store, session, outcome>>

\* ------------------------------------------------------------------ bounds
MaxNameLen == 3
MaxRows == 3
MaxTextLen == 2
MaxQueryLen == 3
MaxInt == 2
MaxTotal == 5

\* Python's None (as a type name and as an attribute value), and the state of
\* a variable that nothing has written yet.
None == "None"

Idle == [op |-> "idle"]

Absent == [absent |-> TRUE]

\* ----------------------------------------------------------------- strings
RECURSIVE SeqsUpTo(_, _)
SeqsUpTo(alphabet, n) ==
    IF n = 0 THEN {<<>>}
    ELSE LET shorter == SeqsUpTo(alphabet, n - 1)
         IN  shorter \cup {Append(s, c) : s \in shorter, c \in alphabet}

StartsWith(s, prefix) ==
    /\ Len(s) >= Len(prefix)
    /\ SubSeq(s, 1, Len(prefix)) = prefix

EndsWith(s, suffix) ==
    /\ Len(s) >= Len(suffix)
    /\ SubSeq(s, Len(s) - Len(suffix) + 1, Len(s)) = suffix

\* str.split(sep) for a non-empty separator: leftmost, non-overlapping
\* occurrences; cur is the piece being collected.
RECURSIVE SplitFrom(_, _, _)
SplitFrom(s, sep, cur) ==
    IF s = <<>> THEN <<cur>>
    ELSE IF StartsWith(s, sep)
         THEN <<cur>> \o SplitFrom(SubSeq(s, Len(sep) + 1, Len(s)), sep, <<>>)
         ELSE SplitFrom(Tail(s), sep, Append(cur, Head(s)))

Split(s, sep) == SplitFrom(s, sep, <<>>)

\* The characters str.split() takes for separators.
Whitespace == {" ", "\t", "\n"}

\* str.split() with no separator: the maximal runs of characters that are not
\* whitespace, in order; cur is the run being read.
RECURSIVE SplitRuns(_, _)
SplitRuns(s, cur) ==
    IF s = <<>> THEN IF cur = <<>> THEN <<>> ELSE <<cur>>
    ELSE IF Head(s) \in Whitespace
         THEN (IF cur = <<>> THEN <<>> ELSE <<cur>>) \o SplitRuns(Tail(s), <<>>)
         ELSE SplitRuns(Tail(s), Append(cur, Head(s)))

split(s) == SplitRuns(s, <<>>)

Lower(c) ==
    CASE c = "A" -> "a"
      [] c = "B" -> "b"
      [] c = "I" -> "i"
      [] c = "N" -> "n"
      [] OTHER -> c

Upper(c) ==
    CASE c = "a" -> "A"
      [] c = "b" -> "B"
      [] c = "i" -> "I"
      [] c = "n" -> "N"
      [] OTHER -> c

LowerStr(s) == [i \in 1..Len(s) |-> Lower(s[i])]

\* str.title() of a piece that holds no underscore: first letter upper-cased,
\* the others lower-cased.
TitleStr(s) == [i \in 1..Len(s) |-> IF i = 1 THEN Upper(s[i]) ELSE Lower(s[i])]

RECURSIVE Concat(_)
Concat(pieces) ==
    IF pieces = <<>> THEN <<>> ELSE Head(pieces) \o Concat(Tail(pieces))

\* -------------------------------------------------------------- Conditions
Conditions == <<"eq", "ne", "gt", "lt", "ge", "le", "like", "ilike">>

ConditionSet == {Conditions[i] : i \in 1..Len(Conditions)}

likes == {"like", "ilike"}

exacts == {"eq", "ne"}

comparisons == {"ge", "le", "gt", "lt"}

\* The value of a member (what f"{cond}" renders), as characters.
CondStr(cond) ==
    CASE cond = "eq" -> <<"e", "q">>
      [] cond = "ne" -> <<"n", "e">>
      [] cond = "gt" -> <<"g", "t">>
      [] cond = "lt" -> <<"l", "t">>
      [] cond = "ge" -> <<"g", "e">>
      [] cond = "le" -> <<"l", "e">>
      [] cond = "like" -> <<"l", "i", "k", "e">>
      [] cond = "ilike" -> <<"i", "l", "i", "k", "e">>

\* Conditions[name]: the member of that name, or KeyError.
CondByName(name) ==
    IF \E c \in ConditionSet : CondStr(c) = name
    THEN CHOOSE c \in ConditionSet : CondStr(c) = name
    ELSE "KeyError"

Dunder == <<"_", "_">>

DunderIn == <<"_", "_", "i", "n">>

\* ------------------------------------------------- QueryModelBase.parse_filter
parse_filter(field) ==
    LET multi == EndsWith(field, DunderIn)
        field_parts == Split(IF multi THEN SubSeq(field, 1, Len(field) - 4)
                                      ELSE field, Dunder)
        field_name == field_parts[1]
    IN  IF Len(field_parts) = 1
        THEN [ok |-> TRUE, field |-> field_name, cond |-> "eq", multi |-> multi]
        ELSE IF CondByName(field_parts[2]) = "KeyError"
             THEN [ok |-> FALSE, err |-> "KeyError"]
             ELSE [ok |-> TRUE, field |-> field_name,
                   cond |-> CondByName(field_parts[2]), multi |-> multi]

\* ------------------------------------------------------------- QueryPars
\* A field annotation: a plain type, or a Union / Optional with its members.
Plain(t) == [args |-> {}, type |-> t]

UnionOf(ts) == [args |-> ts, type |-> "Union"]

\* get_args() is empty for a plain type; NoneType members are dropped and
\* EmailStr is read as str.
_normalize_field_types(annotation) ==
    LET types == IF annotation.args = {} THEN {annotation.type}
                 ELSE {t \in annotation.args : t # "NoneType"}
    IN  {IF t = "EmailStr" THEN "str" ELSE t : t \in types}

_cond_valid_for_no_bool_rule(cond, types) ==
    IF "str" \in types THEN cond \notin comparisons ELSE cond \notin likes

_cond_valid_for(cond, types) ==
    IF "bool" \in types THEN cond \in exacts
    ELSE IF "str" \in types THEN cond \notin comparisons
    ELSE cond \notin likes

camel(snake_str) ==
    LET pieces == Split(snake_str, <<"_">>)
    IN  LowerStr(Head(pieces))
            \o Concat([i \in 1..(Len(pieces) - 1) |-> TitleStr(pieces[i + 1])])

\* (attribute name, external alias, attribute name of the membership variant)
field_names(field_name, cond) ==
    LET camelname == camel(field_name)
        fname == field_name \o Dunder \o CondStr(cond)
    IN  IF cond = "eq"
        THEN <<field_name, camelname, field_name \o DunderIn>>
        ELSE <<fname, camelname \o <<"[">> \o CondStr(cond) \o <<"]">>,
               fname \o DunderIn>>

\* One declared attribute of the generated class: its name, its external alias
\* and its annotation.
Attr(name, alias, annotation) ==
    [name |-> name, alias |-> alias, annotation |-> annotation]

ScalarAttr(field_name, cond, model_types) ==
    LET n == field_names(field_name, cond)
    IN  Attr(n[1], n[2],
             [kind |-> "scalar",
              types |-> IF "bool" \in model_types THEN {"bool"}
                        ELSE IF cond \in exacts THEN model_types \cup {None}
                        ELSE model_types])

MultiAttr(field_name, cond, model_types) ==
    LET n == field_names(field_name, cond)
    IN  Attr(n[3], n[2] \o <<"[", "]">>, [kind |-> "list", types |-> model_types])

\* filters.py:181, the guard of the membership variant.
HasMulti(cond, model_types) == cond \in exacts /\ "bool" \notin model_types

\* The body of "for cond in Conditions", from the i-th member on; the result
\* lists the entries of `out` in insertion order.
RECURSIVE FilterAttrsFrom(_, _, _)
FilterAttrsFrom(field_name, model_types, i) ==
    IF i > Len(Conditions) THEN <<>>
    ELSE LET cond == Conditions[i]
             here == IF ~_cond_valid_for(cond, model_types) THEN <<>>
                     ELSE <<ScalarAttr(field_name, cond, model_types)>>
                          \o (IF HasMulti(cond, model_types)
                              THEN <<MultiAttr(field_name, cond, model_types)>>
                              ELSE <<>>)
         IN  here \o FilterAttrsFrom(field_name, model_types, i + 1)

_field_filter_attrs(field_name, annotation) ==
    FilterAttrsFrom(field_name, _normalize_field_types(annotation), 1)

S_page == <<"p", "a", "g", "e">>

S_per_page == <<"p", "e", "r", "_", "p", "a", "g", "e">>

S_perPage == <<"p", "e", "r", "P", "a", "g", "e">>

S_order_by == <<"o", "r", "d", "e", "r", "_", "b", "y">>

S_orderBy == <<"o", "r", "d", "e", "r", "B", "y">>

S_project == <<"p", "r", "o", "j", "e", "c", "t">>

base_fields == {S_page, S_per_page, S_order_by, S_project}

\* The attributes QueryModelBase declares itself, in order.
BaseAttrs ==
    <<Attr(S_page, S_page, [kind |-> "int"]),
      Attr(S_per_page, S_perPage, [kind |-> "int"]),
      Attr(S_order_by, S_orderBy, [kind |-> "list"]),
      Attr(S_project, S_project, [kind |-> "list"])>>

Names(attrs) == {attrs[i].name : i \in 1..Len(attrs)}

\* d[a.name] = a on an insertion-ordered dict: a known key keeps its place.
DictSet(d, a) ==
    IF a.name \in Names(d)
    THEN [i \in 1..Len(d) |-> IF d[i].name = a.name THEN a ELSE d[i]]
    ELSE Append(d, a)

RECURSIVE DictUpdate(_, _)
DictUpdate(d, newer) ==
    IF newer = <<>> THEN d ELSE DictUpdate(DictSet(d, Head(newer)), Tail(newer))

RECURSIVE FieldsAttrs(_, _, _)
FieldsAttrs(fields, mdl, class_attrs) ==
    IF fields = <<>> THEN class_attrs
    ELSE FieldsAttrs(Tail(fields), mdl,
             DictUpdate(class_attrs,
                        _field_filter_attrs(Head(fields), mdl[Head(fields)].annotation)))

\* QueryPars.build(*fields, search_method=..., **kwfields); kwfields is a
\* sequence of [name, annotation] in keyword order. create_model lays the new
\* attributes over those of the base class.
build(mdl, fields, search_method, kwfields) ==
    LET class_attrs ==
            <<Attr(S_order_by, S_orderBy, [kind |-> "order_by", of |-> DOMAIN mdl]),
              Attr(S_project, S_project, [kind |-> "project", of |-> DOMAIN mdl])>>
        with_fields == FieldsAttrs(fields, mdl, class_attrs)
        with_kw == DictUpdate(with_fields,
                      [i \in 1..Len(kwfields) |->
                          Attr(kwfields[i].name, kwfields[i].name, kwfields[i].annotation)])
    IN  [model_fields |-> DictUpdate(BaseAttrs, with_kw),
         model |-> mdl,
         search_mth |-> search_method]

\* hasattr(f.annotation, "_sql_cond"): the types QueryPars.levenshtein and
\* QueryPars.multi_like build carry the method.
HasSqlCond(annotation) == annotation.kind \in {"Levenshtein", "MultiLike"}

\* extra="forbid" with populate_by_name: a request key must be the alias or
\* the name of a declared attribute.
AcceptsKey(sch, key) ==
    \E i \in 1..Len(sch.model_fields) :
        sch.model_fields[i].alias = key \/ sch.model_fields[i].name = key

\* ------------------------------------------------------------------ values
\* A validated parameter value, tagged with its Python type.
IntVal(n) == [t |-> "int", v |-> n]

StrVal(chars) == [t |-> "str", v |-> chars]

BoolVal(b) == [t |-> "bool", v |-> b]

ListVal(items) == [t |-> "list", v |-> items]

NoneVal == [t |-> "NoneType", v |-> None]

\* An instance of the str subclass a custom annotation names: the text, and the
\* class attributes (fields / ignorecase, or field / max_distance).
CustomVal(annotation, chars) == [t |-> annotation.kind, v |-> chars, cls |-> annotation]

\* QueryPars.levenshtein(field, max_distance) and QueryPars.multi_like(*fields, i=True)
levenshtein(field, max_distance) ==
    [kind |-> "Levenshtein", field |-> field, max_distance |-> max_distance]

multi_like(fields, i) == [kind |-> "MultiLike", fields |-> fields, ignorecase |-> i]

\* -------------------------------------------------------------- predicates
\* SQLAlchemy expressions: a comparator applied to a column, a function call,
\* and_ / or_ over a set of expressions.
Cmp(attr, getter, value) == [k |-> "cmp", attr |-> attr, getter |-> getter, value |-> value]

Func(name, attr, value) == [k |-> "func", name |-> name, attr |-> attr, value |-> value]

And(args) == [k |-> "and", args |-> args]

Or(args) == [k |-> "or", args |-> args]

Raised(err) == [k |-> "raise", err |-> err]

Wrap(chars) == <<"%">> \o chars \o <<"%">>

\* Levenshtein's sql_cond(self, model)
levenshtein_sql_cond(self) ==
    And({Func("levenshtein", self.cls.field, StrVal(self.v))})

\* MultiLike's sql_cond(self, model): and_ over the parts of or_ over the
\* fields of <field>.like / ilike ("%part%").
multi_like_sql_cond(self) ==
    LET pieces == split(self.v)
        parts == {pieces[n] : n \in 1..Len(pieces)}
    IN  And({Or({Cmp(f, IF self.cls.ignorecase THEN "ilike" ELSE "like", StrVal(Wrap(part))) :
                    f \in self.cls.fields}) : part \in parts})

\* db.py:161-166, the comparator method looked up on the column.
getter_attr(condition, multi) ==
    IF condition \in {"like", "ilike"} THEN condition
    ELSE IF multi
         THEN (IF condition = "eq" THEN "in_"
               ELSE IF condition = "ne" THEN "not_in" ELSE "KeyError")
    ELSE CASE condition = "eq" -> "__eq__"
           [] condition = "ne" -> "__ne__"
           [] condition = "gt" -> "__gt__"
           [] condition = "lt" -> "__lt__"
           [] condition = "ge" -> "__ge__"
           [] condition = "le" -> "__le__"

\* DbInterface._sql_cond(filter_field, value, filters)
_sql_cond(filter_field, value, mdl) ==
    IF value.t = "Levenshtein" THEN levenshtein_sql_cond(value)
    ELSE IF value.t = "MultiLike" THEN multi_like_sql_cond(value)
    ELSE LET p == parse_filter(filter_field)
         IN  IF ~p.ok THEN Raised(p.err)
             ELSE IF getter_attr(p.cond, p.multi) = "KeyError" THEN Raised("KeyError")
             ELSE IF p.field \notin DOMAIN mdl THEN Raised("AttributeError")
             ELSE Cmp(p.field, getter_attr(p.cond, p.multi),
                      IF p.cond \in likes THEN StrVal(Wrap(value.v)) ELSE value)

\* A parameter instance: its class (the schema) and the explicitly supplied
\* attributes with their values (model_dump(exclude_unset=True)).
Supplied(flt) == DOMAIN flt.data

\* QueryModelBase.model_filters
model_filters(flt) ==
    LET model_attrs == DOMAIN flt.cls.model
        declared == {flt.cls.model_fields[i] : i \in 1..Len(flt.cls.model_fields)}
    IN  {<<f.name, flt.data[f.name]>> :
            f \in {a \in declared :
                      /\ a.name \in Supplied(flt)
                      /\ (a.name \in model_attrs \/ HasSqlCond(a.annotation))}}

\* The loop of has_custom_filters from the i-th declared attribute on: the
\* first attribute that decides (or whose name parse_filter rejects) ends it.
RECURSIVE HasCustomFrom(_, _)
HasCustomFrom(flt, i) ==
    IF i > Len(flt.cls.model_fields) THEN "False"
    ELSE LET f == flt.cls.model_fields[i]
             p == parse_filter(f.name)
         IN  IF ~p.ok THEN p.err
             ELSE IF /\ p.field \notin (base_fields \cup DOMAIN flt.cls.model)
                     /\ ~HasSqlCond(f.annotation)
                  THEN "True"
                  ELSE HasCustomFrom(flt, i + 1)

has_custom_filters_never(flt) == "False"

\* QueryModelBase.has_custom_filters: "True", "False", or the error raised.
has_custom_filters(flt) == HasCustomFrom(flt, 1)

\* DbInterface._where_from_filters: and_(True, *conds); the literal True adds
\* no conjunct.
_where_from_filters(flt) ==
    And({_sql_cond(kv[1], kv[2], flt.cls.model) : kv \in model_filters(flt)})

\* ================================================================ schema
\* Schema synthesis for one model field of any name and annotation, the
\* validation of a request key against it, and the way from a generated
\* attribute name back through parse_filter and _sql_cond.
NameAlphabet == {"a", "n", "_"}

\* Pydantic field names: non-empty identifiers that do not start with "_".
FieldNameSet ==
    {s \in SeqsUpTo(NameAlphabet, MaxNameLen) : s # <<>> /\ Head(s) # "_"}

ScalarTypes == {"bool", "str", "int", "float", "EmailStr"}

Annotations ==
    {Plain(t) : t \in ScalarTypes}
        \cup {UnionOf({t, "NoneType"}) : t \in ScalarTypes}
        \cup {UnionOf({"int", "str"}), UnionOf({"int", "float", "NoneType"})}

FieldDecl(annotation, primary_key) ==
    [annotation |-> annotation, primary_key |-> primary_key]

\* The one field of the model under synthesis.
TheField == CHOOSE n \in DOMAIN model : TRUE

\* A value of the field's type, as validation hands it to the compiler.
SampleValue(types, multi) ==
    LET one == IF "bool" \in types THEN BoolVal(TRUE)
               ELSE IF "str" \in types THEN StrVal(<<"a", "n">>)
               ELSE IntVal(1)
    IN  IF multi THEN ListVal(<<one.v>>) ELSE one

\* Every key a client may try for the field: name and alias of the scalar and
\* of the membership variant, for every operator of the vocabulary.
RequestKeys(field_name) ==
    UNION {{field_names(field_name, c)[1], field_names(field_name, c)[2],
            field_names(field_name, c)[3],
            field_names(field_name, c)[2] \o <<"[", "]">>} : c \in ConditionSet}

InitSchema ==
    /\ \E n \in FieldNameSet, a \in Annotations :
          model = (n :> FieldDecl(a, Absent))
    /\ schema = Absent
    /\ filters = Absent
    /\ facade = {}
    /\ store = <<>>
    /\ session = <<>>
    /\ outcome = Idle

Build ==
    /\ schema = Absent
    /\ schema' = build(model, <<TheField>>, None, <<>>)
    /\ UNCHANGED <<model, filters, facade, store, session, outcome>>

Validate ==
    /\ schema # Absent
    /\ \E key \in RequestKeys(TheField) :
          outcome' = [op |-> "validate", key |-> key,
                      accepted |-> AcceptsKey(schema, key)]
    /\ UNCHANGED <<model, schema, filters, facade, store, session>>

RoundTrip ==
    /\ schema # Absent
    /\ \E c \in ConditionSet, m \in BOOLEAN :
          LET types == _normalize_field_types(model[TheField].annotation)
              name == field_names(TheField, c)[IF m THEN 3 ELSE 1]
          IN  /\ _cond_valid_for(c, types)
              /\ m => HasMulti(c, types)
              /\ outcome' = [op |-> "roundtrip", cond |-> c, multi |-> m,
                             name |-> name,
                             parsed |-> parse_filter(name),
                             sql |-> _sql_cond(name,
                                        SampleValue(types, m),
                                        model)]
    /\ UNCHANGED <<model, schema, filters, facade, store, session>>

NextSchema == Build \/ Validate \/ RoundTrip

SpecSchema == InitSchema /\ [][NextSchema]_vars

\* The parameters the schema contract names for a field, as (operator,
\* is-membership) pairs, by the kind of the field.
ContractParams(types) ==
    IF "bool" \in types
    THEN {<<c, FALSE>> : c \in {"eq", "ne"}}
    ELSE IF "str" \in types
         THEN {<<c, FALSE>> : c \in {"eq", "ne", "like", "ilike"}}
                  \cup {<<c, TRUE>> : c \in {"eq", "ne"}}
         ELSE {<<c, FALSE>> : c \in {"eq", "ne", "gt", "lt", "ge", "le"}}
                  \cup {<<c, TRUE>> : c \in {"eq", "ne"}}

\* field, field__op, field__in, field__op__in
ContractName(n, c, m) ==
    n \o (IF c = "eq" THEN <<>> ELSE Dunder \o CondStr(c))
      \o (IF m THEN DunderIn ELSE <<>>)

\* camelCased field, then [op] for a non-eq operator, then [] for membership
ContractAlias(n, c, m) ==
    camel(n) \o (IF c = "eq" THEN <<>> ELSE <<"[">> \o CondStr(c) \o <<"]">>)
             \o (IF m THEN <<"[", "]">> ELSE <<>>)

FieldTypes == _normalize_field_types(model[TheField].annotation)

\* C2: the parameters synthesized for a field are exactly eq and ne scalars
\* for a boolean field; eq, ne, like, ilike scalars for a string field; eq, ne,
\* gt, lt, ge, le scalars for any other field; plus a membership parameter for
\* eq and ne on non-boolean fields only. A request key naming any other
\* parameter of the field is rejected as unknown.
C2_SynthesizedParameters ==
    schema # Absent =>
        LET declared == {schema.model_fields[i] : i \in 1..Len(schema.model_fields)}
            generated == {a \in declared : a.name \notin base_fields}
            contract == {<<ContractName(TheField, cm[1], cm[2]),
                           ContractAlias(TheField, cm[1], cm[2])>> :
                            cm \in ContractParams(FieldTypes)}
        IN  /\ {<<a.name, a.alias>> : a \in generated} = contract
            /\ \A a \in generated :
                  (a.annotation.kind = "list") <=> EndsWith(a.alias, <<"[", "]">>)
            /\ outcome.op = "validate" =>
                  (outcome.accepted <=>
                      \E na \in contract : outcome.key \in {na[1], na[2]})

\* C2 witness: the schema of an int field has been built and a request naming
\* the membership variant of gt was rejected.
C2_Witness ==
    /\ schema # Absent
    /\ FieldTypes = {"int"}
    /\ outcome.op = "validate"
    /\ outcome.key = ContractAlias(TheField, "gt", TRUE)
    /\ ~outcome.accepted

\* The store comparator the contract names for an operator and cardinality.
ContractComparator(c, m) ==
    CASE c = "eq" /\ ~m -> "__eq__"
      [] c = "eq" /\ m -> "in_"
      [] c = "ne" /\ ~m -> "__ne__"
      [] c = "ne" /\ m -> "not_in"
      [] c = "gt" -> "__gt__"
      [] c = "lt" -> "__lt__"
      [] c = "ge" -> "__ge__"
      [] c = "le" -> "__le__"
      [] c = "like" -> "like"
      [] c = "ilike" -> "ilike"

\* C10: for every model field name, every legal operator and both
\* cardinalities the synthesizer generates, parse_filter maps the generated
\* attribute name back to the same (field, operator, is-membership) triple and
\* _sql_cond applies the matching comparator to that field, the value wrapped
\* in % for like and ilike.
C10_NameRoundTrip ==
    outcome.op = "roundtrip" =>
        /\ outcome.parsed = [ok |-> TRUE, field |-> TheField,
                             cond |-> outcome.cond, multi |-> outcome.multi]
        /\ outcome.sql =
              Cmp(TheField, ContractComparator(outcome.cond, outcome.multi),
                  IF outcome.cond \in {"like", "ilike"}
                  THEN StrVal(<<"%">> \o SampleValue(FieldTypes, outcome.multi).v
                                      \o <<"%">>)
                  ELSE SampleValue(FieldTypes, outcome.multi))

\* Field names for which the "__" separator is unambiguous.
PlainName(n) ==
    /\ \A i \in 1..(Len(n) - 1) : ~(n[i] = "_" /\ n[i + 1] = "_")
    /\ n[Len(n)] # "_"

\* The round trip of C10 for names that hold no "__" and end in no "_".
C10_PlainNameRoundTrip == PlainName(TheField) => C10_NameRoundTrip

\* ------------------------------------------------------------------- store
\* What the code asks of SQLAlchemy and the database: comparators on a column,
\* LIKE patterns, the levenshtein function, ORDER BY, LIMIT / OFFSET, COUNT.

\* SQL LIKE: % matches any run of characters, _ any one character.
RECURSIVE LikeMatch(_, _)
LikeMatch(text, pattern) ==
    IF pattern = <<>> THEN text = <<>>
    ELSE IF Head(pattern) = "%"
         THEN \/ LikeMatch(text, Tail(pattern))
              \/ (text # <<>> /\ LikeMatch(Tail(text), pattern))
         ELSE /\ text # <<>>
              /\ (Head(pattern) = "_" \/ Head(pattern) = Head(text))
              /\ LikeMatch(Tail(text), Tail(pattern))

Min2(a, b) == IF a <= b THEN a ELSE b

\* The edit distance the database's levenshtein(a, b) returns.
RECURSIVE Distance(_, _)
Distance(a, b) ==
    IF a = <<>> THEN Len(b)
    ELSE IF b = <<>> THEN Len(a)
    ELSE IF Head(a) = Head(b) THEN Distance(Tail(a), Tail(b))
    ELSE 1 + Min2(Distance(Tail(a), b),
                  Min2(Distance(a, Tail(b)), Distance(Tail(a), Tail(b))))

\* <column>.<getter>(value) on one row. Validation has given the value the
\* column's type; a comparison with NULL (None) is true of no row that holds a
\* value, IS NOT NULL of every such row.
EvalCmp(row, c) ==
    LET col == row[c.attr]
    IN  CASE c.getter = "__eq__" -> c.value.t # "NoneType" /\ col = c.value.v
          [] c.getter = "__ne__" -> c.value.t = "NoneType" \/ col # c.value.v
          [] c.getter = "__gt__" -> col > c.value.v
          [] c.getter = "__lt__" -> col < c.value.v
          [] c.getter = "__ge__" -> col >= c.value.v
          [] c.getter = "__le__" -> col <= c.value.v
          [] c.getter = "in_" -> \E i \in 1..Len(c.value.v) : c.value.v[i] = col
          [] c.getter = "not_in" -> \A i \in 1..Len(c.value.v) : c.value.v[i] # col
          [] c.getter = "like" -> LikeMatch(col, c.value.v)
          [] c.getter = "ilike" -> LikeMatch(LowerStr(col), LowerStr(c.value.v))

\* A predicate on one row. An integer-valued function call in a boolean place
\* is read as "not zero" by the engines that accept it (see Dialects).
RECURSIVE Eval(_, _)
Eval(pred, row) ==
    CASE pred.k = "cmp" -> EvalCmp(row, pred)
      [] pred.k = "func" -> Distance(row[pred.attr], pred.value.v) # 0
      [] pred.k = "and" -> \A a \in pred.args : Eval(a, row)
      [] pred.k = "or" -> \E a \in pred.args : Eval(a, row)

\* The error the compilation of a predicate raised, if any.
RaisedIn(pred) ==
    IF pred.k = "raise" THEN {pred.err}
    ELSE IF pred.k = "and" THEN {a.err : a \in {b \in pred.args : b.k = "raise"}}
    ELSE {}

\* Whether a conjunct of the predicate is an integer, not a boolean. Engines
\* differ: some reject the statement, some read the integer as "not zero".
RECURSIVE HasIntegerConjunct(_)
HasIntegerConjunct(pred) ==
    CASE pred.k = "func" -> TRUE
      [] pred.k \in {"and", "or"} -> \E a \in pred.args : HasIntegerConjunct(a)
      [] OTHER -> FALSE

Dialects == {"integer_as_boolean", "strict_boolean"}

\* ---------------------------------------------------------------- the model
S_id == <<"i", "d">>

S_age == <<"a", "g", "e">>

S_name == <<"n", "a", "m", "e">>

DotDesc == <<".", "d", "e", "s", "c">>

\* Attribute access on a parameter instance: the supplied value, or the default.
Get(flt, name, default) ==
    IF name \in DOMAIN flt.data THEN flt.data[name] ELSE default

\* Python truth of a parameter value.
Truthy(val) ==
    CASE val.t = "int" -> val.v # 0
      [] val.t = "list" -> val.v # <<>>
      [] val.t = "NoneType" -> FALSE

\* QueryModelBase.offset
offset(flt) == Get(flt, S_page, IntVal(0)).v * Get(flt, S_per_page, NoneVal).v

Contains(text, part) ==
    \E i \in 1..(Len(text) - Len(part) + 1) :
        SubSeq(text, i, i + Len(part) - 1) = part

\* DbInterface.order_attrs: (attribute, "asc" | "desc") per entry of order_by.
order_attrs(flt) ==
    LET order_by == Get(flt, S_order_by, NoneVal).v
    IN  [i \in 1..Len(order_by) |->
            [attr |-> Concat(Split(order_by[i], DotDesc)),
             verse |-> IF Contains(order_by[i], DotDesc) THEN "desc" ELSE "asc"]]

\* ORDER BY: whether row r goes strictly before row e under the keys.
RECURSIVE Before(_, _, _)
Before(r, e, keys) ==
    IF keys = <<>> THEN FALSE
    ELSE LET k == Head(keys)
         IN  IF r[k.attr] = e[k.attr] THEN Before(r, e, Tail(keys))
             ELSE IF k.verse = "asc" THEN r[k.attr] < e[k.attr]
             ELSE r[k.attr] > e[k.attr]

RECURSIVE InsertRow(_, _, _)
InsertRow(sorted, r, keys) ==
    IF sorted = <<>> THEN <<r>>
    ELSE IF Before(r, Head(sorted), keys) THEN <<r>> \o sorted
    ELSE <<Head(sorted)>> \o InsertRow(Tail(sorted), r, keys)

\* Rows that tie keep the store's order.
RECURSIVE OrderBy(_, _)
OrderBy(rows, keys) ==
    IF rows = <<>> THEN <<>>
    ELSE InsertRow(OrderBy(SubSeq(rows, 1, Len(rows) - 1), keys), rows[Len(rows)], keys)

\* query.limit(n).offset(k) for n >= 0, k >= 0
LimitOffset(rows, n, k) == SubSeq(rows, k + 1, Min2(k + n, Len(rows)))

\* DbInterface.query_from_filters: what is selected, the filter, the ordering.
query_from_filters(flt) ==
    [what |-> IF Truthy(Get(flt, S_project, NoneVal))
              THEN Get(flt, S_project, NoneVal).v ELSE <<>>,
     where |-> _where_from_filters(flt),
     order_by |-> IF Truthy(Get(flt, S_order_by, NoneVal))
                  THEN order_attrs(flt) ELSE <<>>,
     limit |-> NoneVal,
     offset |-> NoneVal]

\* DbInterface.pagination_queries and count_query: (query, count query)
pagination_queries(flt, query) ==
    IF Truthy(Get(flt, S_per_page, NoneVal))
    THEN <<[query EXCEPT !.limit = Get(flt, S_per_page, NoneVal),
                         !.offset = IntVal(offset(flt))],
           [query EXCEPT !.what = <<"count">>, !.order_by = <<>>]>>
    ELSE <<query, Absent>>

\* The rows a SELECT yields, before any projection.
Rows(table, query) ==
    LET Test(r) == Eval(query.where, r)
        ordered == OrderBy(SelectSeq(table, Test), query.order_by)
    IN  IF query.limit.t = "NoneType" THEN ordered
        ELSE LimitOffset(ordered, query.limit.v, query.offset.v)

\* r._mapping of a projected row: only the selected columns.
Mapping(row, columns) ==
    [c \in {columns[i] : i \in 1..Len(columns)} |-> row[c]]

\* DbInterface._search under an engine dialect: [raised, data, total, ran],
\* where ran lists the statements handed to the session, in order.
_search(flt, table, dialect) ==
    LET base_query == query_from_filters(flt)
        queries == pagination_queries(flt, base_query)
        query == queries[1]
        count_query == queries[2]
        first == IF count_query # Absent THEN "count" ELSE "select"
    IN  IF RaisedIn(base_query.where) # {}
        THEN [raised |-> CHOOSE e \in RaisedIn(base_query.where) : TRUE,
              data |-> <<>>, total |-> 0, ran |-> <<>>]
        ELSE IF HasIntegerConjunct(base_query.where) /\ dialect = "strict_boolean"
        THEN [raised |-> "ProgrammingError", data |-> <<>>, total |-> 0,
              ran |-> <<first>>]
        ELSE LET count == IF count_query # Absent
                          THEN Len(Rows(table, count_query))
                          ELSE 0
                 rows == Rows(table, query)
                 data == IF base_query.what # <<>>
                         THEN [i \in 1..Len(rows) |-> Mapping(rows[i], base_query.what)]
                         ELSE rows
             IN  [raised |-> None,
                  data |-> data,
                  total |-> IF count # 0 THEN count ELSE Len(data),
                  ran |-> IF count_query # Absent THEN <<"count", "select">>
                          ELSE <<"select">>]

\* DbInterface.search
search(flt, methods, table, dialect) ==
    LET custom == has_custom_filters(flt)
    IN  IF custom \notin {"True", "False"}
        THEN [raised |-> custom, data |-> <<>>, total |-> 0, ran |-> <<>>,
              dispatched |-> None]
        ELSE IF custom = "True"
        THEN IF flt.cls.search_mth = None \/ flt.cls.search_mth \notin methods
             THEN [raised |-> "NotImplementedError", data |-> <<>>, total |-> 0,
                   ran |-> <<>>, dispatched |-> None]
             ELSE [raised |-> None, data |-> <<>>, total |-> 0, ran |-> <<>>,
                   dispatched |-> flt.cls.search_mth]
        ELSE [dispatched |-> None] @@ _search(flt, table, dialect)

\* ============================================================ the requests
\* A model with an optional integer key, an integer and a string column, and
\* the parameter instances a request can produce for a schema built on it.
S_q == <<"q">>

S_s == <<"s">>

S_lv == <<"l", "v">>

UserModel ==
    (S_id :> FieldDecl(UnionOf({"int", "NoneType"}), BoolVal(TRUE)))
        @@ (S_age :> FieldDecl(Plain("int"), BoolVal(FALSE)))
        @@ (S_name :> FieldDecl(Plain("str"), Absent))

Ints == 1..MaxInt

Texts == {<<"a">>, <<"a", "n">>, <<"A">>}

ListsOf(values) ==
    {<<v>> : v \in values} \cup {p \in values \X values : p[1] # p[2]}

\* The values validation lets through for a declared attribute.
ParamValues(a) ==
    LET k == a.annotation.kind
    IN  CASE k = "scalar" ->
                 (IF "int" \in a.annotation.types THEN {IntVal(n) : n \in Ints} ELSE {})
                     \cup (IF "str" \in a.annotation.types
                           THEN {StrVal(t) : t \in Texts} ELSE {})
                     \cup (IF "bool" \in a.annotation.types
                           THEN {BoolVal(b) : b \in BOOLEAN} ELSE {})
                     \cup (IF None \in a.annotation.types THEN {NoneVal} ELSE {})
          [] k = "list" ->
                 {ListVal(l) : l \in ListsOf(IF "int" \in a.annotation.types
                                              THEN Ints ELSE Texts)}
          [] k \in {"Levenshtein", "MultiLike"} ->
                 {CustomVal(a.annotation, t) : t \in Texts}
          [] k = "str" -> {StrVal(t) : t \in Texts}
          [] k = "int" -> {IntVal(n) : n \in 0..MaxInt}
          [] k = "order_by" ->
                 {ListVal(<<f>>) : f \in {S_age, S_age \o DotDesc, S_id \o DotDesc}}
                     \cup {ListVal(<<>>)}
          [] k = "project" -> {ListVal(<<S_name>>), ListVal(<<S_id, S_age>>)}

Declared(sch) == {sch.model_fields[i] : i \in 1..Len(sch.model_fields)}

\* (name, value) for every declared attribute and every value it accepts.
Settings(sch, attrs) ==
    UNION {{<<a.name, v>> : v \in ParamValues(a)} : a \in attrs}

\* The supplied values of the instances with at most two of the given
\* attributes supplied.
InstancesOf(sch, attrs) ==
    LET one == Settings(sch, attrs)
    IN  {<<>>} \cup {(p[1] :> p[2]) : p \in one}
               \cup {(p[1] :> p[2]) @@ (q[1] :> q[2]) : p \in one, q \in one}

\* The parameter instance of the request: its class and its supplied values.
Instance == [cls |-> schema, data |-> filters]

SearchSchema(search_method, kwfields) ==
    build(UserModel, <<S_age, S_name>>, search_method, kwfields)

PredicateFields ==
    <<[name |-> S_s, annotation |-> multi_like({S_name}, TRUE)],
      [name |-> S_lv, annotation |-> levenshtein(S_name, 1)]>>

RowsOf(ids) ==
    {(S_id :> i) @@ (S_age :> a) @@ (S_name :> n) : i \in ids, a \in Ints, n \in Texts}

\* ================================================================= compile
\* _where_from_filters on every instance with at most two supplied attributes
\* of a schema with both custom predicates, and the predicate applied to a row.
InitWhere ==
    /\ model = UserModel
    /\ schema = SearchSchema(None, PredicateFields)
    /\ filters \in InstancesOf(schema, {a \in Declared(schema) :
                                           a.name \notin {S_order_by, S_project}})
    /\ facade = {}
    /\ store \in {<<r>> : r \in RowsOf({1})}
    /\ session = <<>>
    /\ outcome = Idle

Compile ==
    /\ outcome = Idle
    /\ outcome' = [op |-> "compile", where |-> _where_from_filters(Instance)]
    /\ UNCHANGED <<model, schema, filters, facade, store, session>>

\* The predicate as the WHERE clause of a statement run on the table, under
\* an engine dialect, seen from one row.
Match ==
    /\ outcome.op = "compile"
    /\ RaisedIn(outcome.where) = {}
    /\ \E i \in 1..Len(store), dialect \in Dialects :
          LET rejected == HasIntegerConjunct(outcome.where) /\ dialect = "strict_boolean"
          IN  outcome' = [op |-> "match", where |-> outcome.where, row |-> store[i],
                          raised |-> IF rejected THEN "ProgrammingError" ELSE None,
                          matches |-> ~rejected /\ Eval(outcome.where, store[i])]
    /\ UNCHANGED <<model, schema, filters, facade, store, session>>

NextWhere == Compile \/ Match

SpecWhere == InitWhere /\ [][NextWhere]_vars

\* The (field, operator, is-membership) a generated attribute name stands for.
ContractTriple(name) ==
    CHOOSE t \in (DOMAIN UserModel) \X ConditionSet \X BOOLEAN :
        ContractName(t[1], t[2], t[3]) = name

\* The conjunct the contract gives one supplied filter parameter: the custom
\* predicate of a custom value, else comparator(field, value).
ContractConjunct(name, value) ==
    IF value.t = "Levenshtein" THEN levenshtein_sql_cond(value)
    ELSE IF value.t = "MultiLike" THEN multi_like_sql_cond(value)
    ELSE LET t == ContractTriple(name)
         IN  Cmp(t[1], ContractComparator(t[2], t[3]),
                 IF t[2] \in {"like", "ilike"}
                 THEN StrVal(<<"%">> \o value.v \o <<"%">>) ELSE value)

SuppliedFilters == Supplied(Instance) \ base_fields

\* C1: the compiled predicate is the AND of exactly one conjunct per supplied
\* filter parameter (scalar or membership, any legal operator, or custom
\* predicate); unsupplied parameters add none; with none supplied every row
\* matches.
C1_OneConjunctPerSuppliedFilter ==
    outcome.op \in {"compile", "match"} =>
        /\ outcome.where =
              And({ContractConjunct(k, filters[k]) : k \in SuppliedFilters})
        /\ (outcome.op = "match" /\ SuppliedFilters = {}) => outcome.matches

\* What the code compiles: a conjunct for a supplied parameter only if its
\* name is itself a model field (the scalar eq parameter) or its annotation
\* carries _sql_cond.
C1_CompiledConjuncts ==
    outcome.op \in {"compile", "match"} =>
        outcome.where =
            And({ContractConjunct(k, filters[k]) :
                    k \in {n \in SuppliedFilters :
                              n \in DOMAIN UserModel \/ n \in {S_s, S_lv}}})

\* ================================================================== search
\* DbInterface.search / _search on a table of up to MaxRows rows.
TableKinds == {<<1, <<"a">>>>, <<2, <<"a", "n">>>>}

\* Row i holds the primary key i.
Tables ==
    {[i \in 1..Len(t) |-> (S_id :> i) @@ (S_age :> t[i][1]) @@ (S_name :> t[i][2])] :
        t \in SeqsUpTo(TableKinds, MaxRows)}

\* s |-> v for every v, and the empty function (the attribute is not supplied).
Maybe(name, values) == {<<>>} \cup {(name :> v) : v \in values}

FilterSamples ==
    {<<>>,
     (S_age :> IntVal(1)),
     (S_age \o Dunder \o CondStr("gt") :> IntVal(1)),
     (S_s :> CustomVal(multi_like({S_name}, TRUE), <<"n">>))}

PageRequests ==
    {p @@ pp : p \in Maybe(S_page, {IntVal(n) : n \in 0..MaxInt}),
               pp \in Maybe(S_per_page, {IntVal(n) : n \in 0..MaxInt})}

ShapeRequests ==
    {o @@ pr : o \in Maybe(S_order_by, {ListVal(<<S_age \o DotDesc>>)}),
               pr \in Maybe(S_project, {ListVal(<<S_name>>)})}

InitSearch ==
    /\ model = UserModel
    /\ schema = SearchSchema(None, PredicateFields)
    /\ filters \in {f @@ pg @@ sh :
                       f \in FilterSamples, pg \in PageRequests, sh \in ShapeRequests}
    /\ facade = {}
    /\ store \in Tables
    /\ session = <<>>
    /\ outcome = Idle

Search ==
    /\ outcome = Idle
    /\ \E dialect \in Dialects :
          LET r == search(Instance, facade, store, dialect)
          IN  /\ outcome' = [op |-> "search"] @@ r
              /\ session' = session \o r.ran
    /\ UNCHANGED <<model, schema, filters, facade, store>>

NextSearch == Search

SpecSearch == InitSearch /\ [][NextSearch]_vars

\* The rows that satisfy a predicate, in the order the query asks for, shaped
\* as the query returns them.
RowsMatching(where) ==
    LET Test(r) == Eval(where, r)
        ordered == OrderBy(SelectSeq(store, Test),
                           IF S_order_by \in DOMAIN filters THEN order_attrs(Instance)
                           ELSE <<>>)
    IN  IF S_project \in DOMAIN filters /\ filters[S_project].v # <<>>
        THEN [i \in 1..Len(ordered) |-> Mapping(ordered[i], filters[S_project].v)]
        ELSE ordered

\* The rows matching the filters: those on which every supplied filter
\* parameter holds.
MatchingRows ==
    RowsMatching(And({ContractConjunct(k, filters[k]) : k \in SuppliedFilters}))

\* The rows matching the predicate _where_from_filters compiles.
CompiledRows == RowsMatching(_where_from_filters(Instance))

RequestedPage == IF S_page \in DOMAIN filters THEN filters[S_page].v ELSE 0

\* The page and the total of a search, given the matching rows.
PageAndTotalOf(matching) ==
    /\ (S_per_page \in DOMAIN filters /\ filters[S_per_page].v # 0) =>
          LET per_page == filters[S_per_page].v
              first == RequestedPage * per_page
              n == IF Len(matching) - first < 0 THEN 0
                   ELSE Min2(per_page, Len(matching) - first)
          IN  /\ outcome.data = [i \in 1..n |-> matching[first + i]]
              /\ outcome.total = Len(matching)
    /\ S_per_page \notin DOMAIN filters =>
          /\ outcome.data = matching
          /\ \A i \in 1..Len(session) : session[i] # "count"
          /\ outcome.total = Len(outcome.data)

\* C3: with per_page supplied and non-zero, _search returns the matching rows
\* at positions page*per_page .. page*per_page+per_page-1 and the total is the
\* number of all rows matching the filters whatever the page (an empty page
\* included); with per_page not supplied it returns all matching rows, runs no
\* count query, and the total is the number of rows returned.
C3_PageAndTotal ==
    (outcome.op = "search" /\ outcome.raised = None) => PageAndTotalOf(MatchingRows)

\* What _search returns: the page and the total of the rows matching the
\* compiled predicate, which leaves out the operator and membership
\* parameters (C1).
C3_PageAndTotalOfCompiled ==
    (outcome.op = "search" /\ outcome.raised = None) => PageAndTotalOf(CompiledRows)

\* Page 1 of 2 rows per page over three compiled rows returned one row and a
\* total of three.
C3_LastPageReached ==
    /\ outcome.op = "search"
    /\ outcome.raised = None
    /\ S_per_page \in DOMAIN filters
    /\ filters[S_per_page].v = 2
    /\ RequestedPage = 1
    /\ Len(CompiledRows) = 3
    /\ Len(outcome.data) = 1
    /\ outcome.total = 3

\* An operator parameter was supplied and the total counts a row it excludes.
C3_TotalCountsExcludedRow ==
    /\ outcome.op = "search"
    /\ outcome.raised = None
    /\ S_per_page \in DOMAIN filters
    /\ filters[S_per_page].v # 0
    /\ outcome.total > Len(MatchingRows)

\* =============================================================== dispatch
\* DbInterface.search for schemas with and without a field of their own, a
\* search_method given or not, on facades that define it or not.
OwnField == <<[name |-> S_q, annotation |-> [kind |-> "str"]]>>

FacadeMethods == {"find_users"}

InitDispatch ==
    /\ model = UserModel
    /\ \E sm \in {None, "find_users", "lookup"},
          kw \in {<<>>, PredicateFields, OwnField, PredicateFields \o OwnField} :
          schema = SearchSchema(sm, kw)
    /\ filters \in {f \in FilterSamples \cup {(S_q :> StrVal(<<"a">>)),
                                              (S_lv :> CustomVal(levenshtein(S_name, 1),
                                                                 <<"a">>)),
                                              (S_per_page :> IntVal(1))} :
                       DOMAIN f \subseteq Names(schema.model_fields)}
    /\ facade \in SUBSET FacadeMethods
    /\ store \in Tables
    /\ session = <<>>
    /\ outcome = Idle

NextDispatch == Search

SpecDispatch == InitDispatch /\ [][NextDispatch]_vars

\* A declared attribute the schema did not take from the base class, did not
\* generate for a model field, and that carries no custom predicate.
DeclaresOwnField ==
    \E a \in Declared(schema) :
        /\ a.name \notin base_fields
        /\ \A t \in (DOMAIN model) \X ConditionSet \X BOOLEAN :
              ContractName(t[1], t[2], t[3]) # a.name
        /\ a.annotation.kind \notin {"Levenshtein", "MultiLike"}

\* C7: search dispatches to the method named by search_method exactly when the
\* schema declares a field that is neither a base parameter, nor derived from
\* a model field, nor typed with a custom predicate; then, with no name given
\* or no such method on the facade, it raises NotImplementedError and runs no
\* query; in every other case it runs the standard compiled query and returns
\* (rows, total).
C7_Dispatch ==
    outcome.op = "search" =>
        IF DeclaresOwnField
        THEN /\ session = <<>>
             /\ IF schema.search_mth # None /\ schema.search_mth \in facade
                THEN outcome.raised = None /\ outcome.dispatched = schema.search_mth
                ELSE outcome.raised = "NotImplementedError"
                        /\ outcome.dispatched = None
        ELSE /\ outcome.dispatched = None
             /\ outcome.raised # "NotImplementedError"
             /\ session # <<>>
             /\ session[Len(session)] = "select" \/ outcome.raised # None
             /\ outcome.raised = None =>
                   /\ outcome.total = Len(CompiledRows)
                   /\ S_per_page \notin DOMAIN filters => outcome.data = CompiledRows

\* C7 witness: a schema with a field of its own and no usable search method
\* raised NotImplementedError without running a query.
C7_Witness ==
    /\ outcome.op = "search"
    /\ DeclaresOwnField
    /\ schema.search_mth = "lookup"
    /\ outcome.raised = "NotImplementedError"
    /\ session = <<>>

\* C7 witness of the dispatch itself.
C7_Dispatched ==
    /\ outcome.op = "search"
    /\ outcome.dispatched = "find_users"

\* ================================================================ responses
\* PaginatedResponse.build on the rows and the total of a search, then the
\* serialization of the PaginationMeta it describes.

\* Python's floor division.
FloorDiv(a, b) ==
    LET q == CHOOSE k \in -(2 * MaxTotal + 2 * MaxInt + 2)..(2 * MaxTotal + 2 * MaxInt + 2) :
                 IF b > 0 THEN k * b <= a /\ a < (k + 1) * b
                 ELSE k * b >= a /\ a > (k + 1) * b
    IN  q

\* PaginationMeta.pages with the early return taken only for None.
pages_only_none(self) ==
    IF self.per_page.t = "NoneType" THEN NoneVal
    ELSE IF self.per_page.v = 0 THEN IntVal(self.total)
    ELSE IntVal(FloorDiv(self.total + self.per_page.v - 1, self.per_page.v))

\* PaginationMeta.pages
pages(self) ==
    IF ~Truthy(self.per_page) THEN NoneVal
    ELSE IntVal(FloorDiv(self.total + self.per_page.v - 1, self.per_page.v))

\* PaginatedResponse.build
PaginatedResponse_build(data, flt, total) ==
    [data |-> data,
     meta |-> [page |-> Get(flt, S_page, IntVal(0)),
               per_page |-> Get(flt, S_per_page, NoneVal),
               total |-> total,
               page_total |-> Len(data)]]

MetaRequests ==
    {p @@ pp : p \in Maybe(S_page, {IntVal(n) : n \in 0..MaxInt}),
               pp \in Maybe(S_per_page, {IntVal(n) : n \in -MaxInt..MaxInt})}

InitMeta ==
    /\ model = UserModel
    /\ schema = SearchSchema(None, <<>>)
    /\ filters \in MetaRequests
    /\ facade = {}
    /\ store \in Tables
    /\ session = <<>>
    /\ \E total \in 0..MaxTotal, n \in 0..MaxRows :
          /\ n <= Len(store)
          /\ outcome = [op |-> "search", data |-> SubSeq(store, 1, n), total |-> total]

\* The endpoint hands the rows and the total to PaginatedResponse.build.
BuildResponse ==
    /\ outcome.op = "search"
    /\ outcome' = [op |-> "build", rows |-> outcome.data]
                      @@ PaginatedResponse_build(outcome.data, Instance, outcome.total)
    /\ UNCHANGED <<model, schema, filters, facade, store, session>>

\* The response model is serialized: the computed field pages joins the meta.
Serialize ==
    /\ outcome.op = "build"
    /\ outcome' = [outcome EXCEPT !.op = "response",
                                  !.meta = outcome.meta @@ [pages |-> pages(outcome.meta)]]
    /\ UNCHANGED <<model, schema, filters, facade, store, session>>

NextMeta == BuildResponse \/ Serialize

SpecMeta == InitMeta /\ [][NextMeta]_vars

\* k = ceil(a / b)
IsCeil(k, a, b) ==
    \/ b > 0 /\ (k - 1) * b < a /\ a <= k * b
    \/ b < 0 /\ (k - 1) * b > a /\ a >= k * b

\* C4 as stated: pages is ceil(total / per_page) for every per_page that is
\* set and null when per_page is not set; page_total is the number of rows of
\* the page.
C4_PagesForEverySetPerPage ==
    outcome.op = "response" =>
        /\ S_per_page \in DOMAIN filters =>
              /\ outcome.meta.pages.t = "int"
              /\ IsCeil(outcome.meta.pages.v, outcome.meta.total, filters[S_per_page].v)
        /\ S_per_page \notin DOMAIN filters => outcome.meta.pages = NoneVal
        /\ outcome.meta.page_total = Len(outcome.rows)

\* C4, amended: pages is ceil(total / per_page) for every per_page >= 1, and
\* null when per_page is 0 or not set; page_total is the number of rows of the
\* page.
C4_PagesForPositivePerPage ==
    outcome.op = "response" =>
        /\ (S_per_page \in DOMAIN filters /\ filters[S_per_page].v >= 1) =>
              /\ outcome.meta.pages.t = "int"
              /\ IsCeil(outcome.meta.pages.v, outcome.meta.total, filters[S_per_page].v)
        /\ (S_per_page \notin DOMAIN filters \/ Get(Instance, S_per_page, NoneVal) = IntVal(0)) =>
              outcome.meta.pages = NoneVal
        /\ outcome.meta.page_total = Len(outcome.rows)
        /\ outcome.data = outcome.rows

\* C4 witness: a total of five with two rows per page serialized as three
\* pages, the last of them not full.
C4_Witness ==
    /\ outcome.op = "response"
    /\ outcome.meta.total = MaxTotal
    /\ outcome.meta.per_page = IntVal(2)
    /\ outcome.meta.pages = IntVal((MaxTotal + 1) \div 2)
    /\ outcome.meta.page_total = 1

\* A per_page of 0 serialized with null pages.
C4_ZeroPerPage ==
    /\ outcome.op = "response"
    /\ outcome.meta.per_page = IntVal(0)
    /\ outcome.meta.total > 0
    /\ outcome.meta.pages = NoneVal

\* ===================================================================== crud
\* DbInterface.get / update / upsert / delete on a table of up to MaxRows rows,
\* and the flush of what the call staged in the session.

\* hasattr(self.model_fields[k], "primary_key"): a field declared through
\* Field(...) carries the attribute whatever its value, a bare annotation
\* does not.
HasPrimaryKeyAttr(decl) == "absent" \notin DOMAIN decl.primary_key

\* DbModel.update: the attributes of self after the loop over data.
DbModel_update(self, mdl, data) ==
    LET assigned == {k \in DOMAIN data :
                        ~(k \notin DOMAIN mdl \/ HasPrimaryKeyAttr(mdl[k]))}
    IN  [k \in DOMAIN self \cup assigned |-> IF k \in assigned THEN data[k] ELSE self[k]]

\* session.get(model, instance_id): the position of the row, 0 for None.
session_get(table, instance_id) ==
    IF \E i \in 1..Len(table) : table[i][S_id] = IntVal(instance_id)
    THEN CHOOSE i \in 1..Len(table) : table[i][S_id] = IntVal(instance_id)
    ELSE 0

\* DbInterface.get
get(table, instance_id) ==
    LET at == session_get(table, instance_id)
    IN  IF at = 0 THEN [raised |-> "NotFoundException", staged |-> <<>>]
        ELSE [raised |-> None, staged |-> <<>>, key |-> at, instance |-> table[at]]

\* model(): every column attribute of a new instance reads None.
NewInstance(mdl) == [k \in DOMAIN mdl |-> NoneVal]

Staged(key, instance) == [state |-> IF key = 0 THEN "pending" ELSE "persistent",
                          key |-> key, instance |-> instance]

\* DbInterface.update
update(mdl, table, instance_id, data) ==
    LET found == get(table, instance_id)
    IN  IF found.raised # None THEN found
        ELSE LET instance == DbModel_update(found.instance, mdl, data)
             IN  [raised |-> None, key |-> found.key, instance |-> instance,
                  staged |-> <<Staged(found.key, instance)>>]

\* DbInterface.upsert without the fallback to a new instance.
upsert_without_fallback(mdl, table, instance_id, data) ==
    update(mdl, table, instance_id, data)

\* DbInterface.upsert
upsert(mdl, table, instance_id, data) ==
    LET found == get(table, instance_id)
        key == IF found.raised = None THEN found.key ELSE 0
        instance == DbModel_update(IF found.raised = None THEN found.instance
                                   ELSE NewInstance(mdl),
                                   mdl, data)
    IN  [raised |-> None, key |-> key, instance |-> instance,
         staged |-> <<Staged(key, instance)>>]

\* DbInterface.delete
delete(table, instance_id) ==
    LET at == session_get(table, instance_id)
    IN  IF at = 0 THEN [raised |-> "UnmappedInstanceError", staged |-> <<>>]
        ELSE [raised |-> None, key |-> at, instance |-> table[at],
              staged |-> <<[state |-> "deleted", key |-> at, instance |-> table[at]]>>]

\* The three fields of the model, each of the two others declared either
\* through Field(...) or by its annotation alone.
CrudModels ==
    {(S_id :> FieldDecl(UnionOf({"int", "NoneType"}), BoolVal(TRUE)))
        @@ (S_age :> FieldDecl(Plain("int"), a))
        @@ (S_name :> FieldDecl(Plain("str"), n)) :
        a \in {BoolVal(FALSE), Absent}, n \in {BoolVal(FALSE), Absent}}

S_x == <<"x">>

\* The instances of the rows of a table.
Instances(table) ==
    [i \in 1..Len(table) |->
        (S_id :> IntVal(table[i][S_id])) @@ (S_age :> IntVal(table[i][S_age]))
            @@ (S_name :> StrVal(table[i][S_name]))]

\* The mappings a caller hands to update / upsert.
UpdateData ==
    {i @@ a @@ n @@ x :
        i \in Maybe(S_id, {IntVal(MaxRows + 1)}),
        a \in Maybe(S_age, {IntVal(k) : k \in Ints}),
        n \in Maybe(S_name, {StrVal(<<"A">>)}),
        x \in Maybe(S_x, {IntVal(1)})}

InstanceIds == 1..(MaxRows + 1)

InitCrud ==
    /\ model \in CrudModels
    /\ schema = None
    /\ filters \in UpdateData
    /\ facade = {}
    /\ store \in {Instances(t) : t \in Tables}
    /\ session = <<>>
    /\ outcome = Idle

\* The call's name and arguments, the table it ran against, what it returned
\* or raised.
Called(op, instance_id, r) ==
    [op |-> op, id |-> instance_id, table |-> store, flushed |-> FALSE] @@ r

CallGet ==
    /\ outcome = Idle
    /\ \E instance_id \in InstanceIds :
          LET r == get(store, instance_id)
          IN  /\ outcome' = Called("get", instance_id, r)
              /\ session' = session \o r.staged
    /\ UNCHANGED <<model, schema, filters, facade, store>>

CallUpdate ==
    /\ outcome = Idle
    /\ \E instance_id \in InstanceIds :
          LET r == update(model, store, instance_id, filters)
          IN  /\ outcome' = Called("update", instance_id, r)
              /\ session' = session \o r.staged
    /\ UNCHANGED <<model, schema, filters, facade, store>>

CallUpsert ==
    /\ outcome = Idle
    /\ \E instance_id \in InstanceIds :
          LET r == upsert(model, store, instance_id, filters)
          IN  /\ outcome' = Called("upsert", instance_id, r)
              /\ session' = session \o r.staged
    /\ UNCHANGED <<model, schema, filters, facade, store>>

CallDelete ==
    /\ outcome = Idle
    /\ \E instance_id \in InstanceIds :
          LET r == delete(store, instance_id)
          IN  /\ outcome' = Called("delete", instance_id, r)
              /\ session' = session \o r.staged
    /\ UNCHANGED <<model, schema, filters, facade, store>>

Keys(table) == {table[i][S_id].v : i \in 1..Len(table)}

\* The session flushes the first staged instance: a persistent one is written
\* over its row, a deleted one leaves the table, a pending one becomes a new
\* row, under the key it carries or, when it carries none, under a key the
\* store assigns.
Flush ==
    /\ outcome # Idle
    /\ session # <<>>
    /\ LET e == Head(session)
       IN  CASE e.state = "persistent" -> store' = [store EXCEPT ![e.key] = e.instance]
             [] e.state = "deleted" ->
                    store' = [i \in 1..(Len(store) - 1) |->
                                 IF i < e.key THEN store[i] ELSE store[i + 1]]
             [] e.state = "pending" ->
                    IF e.instance[S_id] = NoneVal
                    THEN \E k \in InstanceIds \ Keys(store) :
                            store' = Append(store, [e.instance EXCEPT ![S_id] = IntVal(k)])
                    ELSE /\ e.instance[S_id].v \notin Keys(store)
                         /\ store' = Append(store, e.instance)
    /\ session' = Tail(session)
    /\ outcome' = [outcome EXCEPT !.flushed = TRUE]
    /\ UNCHANGED <<model, schema, filters, facade>>

NextCrud == CallGet \/ CallUpdate \/ CallUpsert \/ CallDelete \/ Flush

SpecCrud == InitCrud /\ [][NextCrud]_vars

\* The id of the call names a row of the table the call ran against.
IdPresent == outcome.id \in Keys(outcome.table)

\* What C5 says of update on an absent id, and of update and upsert on a
\* present one.
C5_Common ==
    /\ (outcome.op = "update" /\ ~IdPresent) =>
          /\ outcome.raised = "NotFoundException"
          /\ session = <<>>
          /\ ~outcome.flushed
          /\ store = outcome.table
    /\ (outcome.op = "upsert" /\ ~IdPresent) =>
          /\ outcome.raised = None
          /\ ~outcome.flushed =>
                /\ Len(session) = 1
                /\ session[1].state = "pending"
                /\ session[1].instance = outcome.instance
                /\ store = outcome.table
          /\ outcome.flushed =>
                /\ session = <<>>
                /\ Len(store) = Len(outcome.table) + 1
                /\ SubSeq(store, 1, Len(outcome.table)) = outcome.table
    /\ (outcome.op \in {"update", "upsert"} /\ IdPresent) =>
          /\ outcome.raised = None
          /\ outcome.table[outcome.key][S_id] = IntVal(outcome.id)
          /\ ~outcome.flushed =>
                /\ Len(session) = 1
                /\ session[1].state = "persistent"
                /\ session[1].key = outcome.key
                /\ store = outcome.table
          /\ outcome.flushed =>
                /\ session = <<>>
                /\ Len(store) = Len(outcome.table)
                /\ Keys(store) = Keys(outcome.table)

\* C5 as stated: update on an absent id raises NotFound and stages nothing;
\* upsert on an absent id raises nothing and stages one new instance that
\* becomes a new row for that id; on a present id both stage the existing
\* instance and create no row.
C5_UpsertCreatesRowForId ==
    outcome.op \in {"update", "upsert"} =>
        /\ C5_Common
        /\ (outcome.op = "upsert" /\ ~IdPresent /\ outcome.flushed) =>
              store[Len(store)][S_id] = IntVal(outcome.id)

\* C5, amended: update on an absent id raises NotFound and stages nothing;
\* upsert on an absent id raises nothing and stages one new instance whose
\* primary key is left unset, so that it becomes a new row under a key the
\* store assigns; on a present id both stage the existing instance and create
\* no row.
C5_UpsertCreatesRowUnderAssignedKey ==
    outcome.op \in {"update", "upsert"} =>
        /\ C5_Common
        /\ (outcome.op = "upsert" /\ ~IdPresent) =>
              /\ outcome.instance[S_id] = NoneVal
              /\ outcome.flushed =>
                    /\ store[Len(store)][S_id].t = "int"
                    /\ store[Len(store)][S_id].v \notin Keys(outcome.table)

\* C5 witness: upsert on an absent id was flushed into a new row whose key is
\* not the id of the call.
C5_Witness ==
    /\ outcome.op = "upsert"
    /\ ~IdPresent
    /\ outcome.flushed
    /\ Len(store) = Len(outcome.table) + 1
    /\ store[Len(store)][S_id] # IntVal(outcome.id)

\* update on an absent id raised NotFound.
C5_UpdateNotFound ==
    /\ outcome.op = "update"
    /\ ~IdPresent
    /\ outcome.raised = "NotFoundException"
    /\ outcome.table # <<>>

PrimaryKeyField(k) == model[k].primary_key = BoolVal(TRUE)

\* C6 as stated: after update on an existing id every key of data naming a
\* non-primary-key field holds the value of data, primary-key fields keep
\* their value, keys that are not fields set no attribute, and the fields not
\* named in data are unchanged.
C6_UpdateAssignsNonKeyFields ==
    (outcome.op = "update" /\ outcome.raised = None) =>
        LET before == outcome.table[outcome.key]
            after == outcome.instance
        IN  /\ \A k \in DOMAIN filters :
                  (k \in DOMAIN model /\ ~PrimaryKeyField(k)) => after[k] = filters[k]
            /\ \A k \in DOMAIN model : PrimaryKeyField(k) => after[k] = before[k]
            /\ DOMAIN after = DOMAIN model
            /\ \A k \in DOMAIN model \ DOMAIN filters : after[k] = before[k]

\* What update does: the keys of data naming a field declared by its
\* annotation alone hold the value of data; every other field keeps its value,
\* and keys that are not fields set no attribute.
C6_UpdateAssignsBareFields ==
    (outcome.op = "update" /\ outcome.raised = None) =>
        LET before == outcome.table[outcome.key]
            after == outcome.instance
        IN  /\ DOMAIN after = DOMAIN model
            /\ \A k \in DOMAIN model :
                  after[k] = IF k \in DOMAIN filters /\ ~HasPrimaryKeyAttr(model[k])
                             THEN filters[k] ELSE before[k]

\* update named a non-primary-key field declared through Field(...) with a
\* new value and left it as it was.
C6_FieldSkipped ==
    /\ outcome.op = "update"
    /\ outcome.raised = None
    /\ S_age \in DOMAIN filters
    /\ ~PrimaryKeyField(S_age)
    /\ filters[S_age] # outcome.table[outcome.key][S_age]
    /\ outcome.instance[S_age] = outcome.table[outcome.key][S_age]

\* ========================================================= custom predicates
\* The predicates of QueryPars.multi_like and QueryPars.levenshtein values,
\* compiled by _where_from_filters and run against one row of a model with two
\* text columns.
S_nick == <<"n", "i", "c", "k">>

ContactModel ==
    (S_id :> FieldDecl(UnionOf({"int", "NoneType"}), BoolVal(TRUE)))
        @@ (S_name :> FieldDecl(Plain("str"), Absent))
        @@ (S_nick :> FieldDecl(Plain("str"), Absent))

\* The texts a column holds, and the strings a request carries: letters in
\* both cases, a LIKE wildcard, and two kinds of whitespace.
ColumnTexts == SeqsUpTo({"a", "A", "b"}, MaxTextLen)

QueryStrings == SeqsUpTo({"a", "A", "_", " ", "\t"}, MaxQueryLen)

ContactRows ==
    {(S_id :> 1) @@ (S_name :> n) @@ (S_nick :> k) :
        n \in ColumnTexts, k \in {<<>>, <<"A", "b">>}}

\* A schema with the two custom parameters, and the request that supplies one.
CustomSchema(fields, i, max_distance) ==
    build(ContactModel, <<>>, None,
          <<[name |-> S_s, annotation |-> multi_like(fields, i)],
            [name |-> S_lv, annotation |-> levenshtein(S_name, max_distance)]>>)

InitCustom ==
    /\ model = ContactModel
    /\ facade = {}
    /\ session = <<>>
    /\ outcome = Idle
    /\ store \in {<<r>> : r \in ContactRows}
    /\ \/ \E fields \in {{S_name}, {S_name, S_nick}}, i \in BOOLEAN :
             /\ schema = CustomSchema(fields, i, 1)
             /\ filters \in {(S_s :> CustomVal(multi_like(fields, i), q)) :
                                q \in QueryStrings}
       \/ \E max_distance \in 0..MaxTextLen :
             /\ schema = CustomSchema({S_name}, TRUE, max_distance)
             /\ filters \in {(S_lv :> CustomVal(levenshtein(S_name, max_distance), t)) :
                                t \in ColumnTexts}

NextCustom == Compile \/ Match

SpecCustom == InitCustom /\ [][NextCustom]_vars

\* The whitespace-separated tokens of a string: its maximal runs of
\* characters that are not whitespace.
Tokens(s) ==
    {SubSeq(s, a, b) : a \in 1..Len(s), b \in 1..Len(s)}
        \cap {SubSeq(s, p[1], p[2]) :
                 p \in {q \in (1..Len(s)) \X (1..Len(s)) :
                           /\ q[1] <= q[2]
                           /\ \A n \in q[1]..q[2] : s[n] \notin Whitespace
                           /\ (q[1] = 1 \/ s[q[1] - 1] \in Whitespace)
                           /\ (q[2] = Len(s) \/ s[q[2] + 1] \in Whitespace)}}

\* token occurs in text, letter case ignored or not.
Occurs(token, text, ignorecase) ==
    IF ignorecase THEN Contains(LowerStr(text), LowerStr(token))
    ELSE Contains(text, token)

EveryTokenOccurs ==
    \A token \in Tokens(filters[S_s].v) :
        \E f \in filters[S_s].cls.fields :
            Occurs(token, outcome.row[f], filters[S_s].cls.ignorecase)

\* C8: the multi_like predicate matches a row if and only if every
\* whitespace-separated token of the supplied string is a substring of at
\* least one configured field of the row, letter case ignored unless the
\* predicate was built with i=False.
C8_EveryTokenIsSubstring ==
    (outcome.op = "match" /\ S_s \in DOMAIN filters) =>
        /\ outcome.raised = None
        /\ outcome.matches <=> EveryTokenOccurs

\* Where C8 holds: the supplied string holds no LIKE wildcard.
C8_WildcardFreeTokens ==
    (/\ outcome.op = "match"
     /\ S_s \in DOMAIN filters
     /\ \A n \in 1..Len(filters[S_s].v) : filters[S_s].v[n] \notin {"%", "_"}) =>
        /\ outcome.raised = None
        /\ outcome.matches <=> EveryTokenOccurs

\* The token "_" after a letter matched a two-letter name that does not hold it.
C8_WildcardMatched ==
    /\ outcome.op = "match"
    /\ S_s \in DOMAIN filters
    /\ filters[S_s].v = <<"a", "_">>
    /\ outcome.row[S_name] = <<"a", "b">>
    /\ outcome.matches

\* C9: the levenshtein predicate matches a row exactly when the edit distance
\* between the row's field and the supplied string is at most max_distance.
C9_WithinMaxDistance ==
    (outcome.op = "match" /\ S_lv \in DOMAIN filters) =>
        /\ outcome.raised = None
        /\ outcome.matches <=>
              Distance(outcome.row[filters[S_lv].cls.field], filters[S_lv].v)
                  <= filters[S_lv].cls.max_distance

\* What the levenshtein predicate does: the statement is rejected, or it
\* matches the rows at a distance other than zero, whatever max_distance is.
C9_DistanceReadAsBoolean ==
    (outcome.op = "match" /\ S_lv \in DOMAIN filters) =>
        \/ outcome.raised = "ProgrammingError"
        \/ /\ outcome.raised = None
           /\ outcome.matches <=>
                 Distance(outcome.row[filters[S_lv].cls.field], filters[S_lv].v) # 0

\* The supplied string equal to the row's field did not match.
C9_EqualTextNotMatched ==
    /\ outcome.op = "match"
    /\ S_lv \in DOMAIN filters
    /\ outcome.raised = None
    /\ outcome.row[S_name] = filters[S_lv].v
    /\ ~outcome.matches

\* ============================================================== transaction
\* A method wrapped by DbInterface.transaction: the method calls update or
\* upsert on self.db, the wrapper commits or rolls back self.db.session.

\* An exception in flight: its class and whether the class derives from
\* Exception or from BaseException alone (KeyboardInterrupt, SystemExit).
Exc(name, base) == [name |-> name, base |-> base]

\* No exception in flight.
NoExc == Exc(None, None)

OperationalError == Exc("OperationalError", "Exception")

KeyboardInterrupt == Exc("KeyboardInterrupt", "BaseException")

\* except Exception as e
Catches(e) == e.base = "Exception"

\* wrap_func that returns the result without committing.
wrap_func_without_commit(pc, e) ==
    CASE pc = "fun" /\ e = NoExc -> "return"
      [] pc = "commit" /\ e = NoExc -> "return"
      [] pc = "rollback" /\ e = NoExc -> "raise"
      [] pc = "rollback" /\ e # NoExc -> "propagate"
      [] OTHER -> IF Catches(e) THEN "rollback" ELSE "propagate"

\* wrap_func: where control goes from the statement at pc, which returned
\* (e = NoExc) or raised e.
wrap_func(pc, e) ==
    CASE pc = "fun" /\ e = NoExc -> "commit"
      [] pc = "commit" /\ e = NoExc -> "return"
      [] pc = "rollback" /\ e = NoExc -> "raise"
      [] pc = "rollback" /\ e # NoExc -> "propagate"
      [] OTHER -> IF Catches(e) THEN "rollback" ELSE "propagate"

\* The table after the session has written one staged instance; k is the key
\* the store assigns to a pending instance that carries none.
Written(table, e, k) ==
    CASE e.state = "persistent" -> [table EXCEPT ![e.key] = e.instance]
      [] e.state = "deleted" ->
             [i \in 1..(Len(table) - 1) |->
                 IF i < e.key THEN table[i] ELSE table[i + 1]]
      [] e.state = "pending" ->
             Append(table, IF e.instance[S_id] = NoneVal
                           THEN [e.instance EXCEPT ![S_id] = IntVal(k)]
                           ELSE e.instance)

\* The mappings the wrapped method hands on.
TransactionData ==
    {a @@ n : a \in Maybe(S_age, {IntVal(MaxInt)}), n \in Maybe(S_name, {StrVal(<<"A">>)})}

InitTransaction ==
    /\ model \in CrudModels
    /\ schema = None
    /\ filters \in TransactionData
    /\ facade = {"save"}
    /\ store \in {Instances(t) : t \in Tables}
    /\ session = <<>>
    /\ outcome = Idle

\* The caller calls the wrapped method; wrap_func enters the try block.
CallWrapped ==
    /\ outcome = Idle
    /\ \E op \in {"update", "upsert"}, instance_id \in InstanceIds :
          outcome' = [op |-> "transaction", pc |-> "fun", fun |-> op, id |-> instance_id,
                      table |-> store, did |-> <<>>, result |-> NoneVal,
                      fun_raised |-> NoExc, commit_raised |-> NoExc, caught |-> NoExc,
                      returned |-> NoneVal, raised |-> NoExc]
    /\ UNCHANGED <<model, schema, filters, facade, store, session>>

\* result = fun(self, *args, **kwargs): the method returns what update or
\* upsert returned, raises what it raised, or is interrupted.
RunFun ==
    /\ outcome # Idle
    /\ outcome.pc = "fun"
    /\ \/ LET r == IF outcome.fun = "update"
                   THEN update(model, store, outcome.id, filters)
                   ELSE upsert(model, store, outcome.id, filters)
              e == IF r.raised = None THEN NoExc ELSE Exc(r.raised, "Exception")
          IN  /\ session' = session \o r.staged
              /\ outcome' = [outcome EXCEPT
                                !.pc = wrap_func("fun", e),
                                !.result = IF e = NoExc THEN r.instance ELSE NoneVal,
                                !.fun_raised = e,
                                !.caught = e]
       \/ /\ session' = session
          /\ outcome' = [outcome EXCEPT !.pc = wrap_func("fun", KeyboardInterrupt),
                                        !.fun_raised = KeyboardInterrupt,
                                        !.caught = KeyboardInterrupt]
    /\ UNCHANGED <<model, schema, filters, facade, store>>

\* self.db.session.commit(): the staged instance is written and the call
\* returns, or the store refuses and the call raises, or it is interrupted.
Commit ==
    /\ outcome # Idle
    /\ outcome.pc = "commit"
    /\ \/ /\ IF session = <<>> THEN store' = store
             ELSE \E k \in InstanceIds \ Keys(store) :
                     store' = Written(store, Head(session), k)
          /\ session' = <<>>
          /\ outcome' = [outcome EXCEPT !.pc = wrap_func("commit", NoExc),
                                        !.did = Append(@, <<"commit", "done">>)]
       \/ \E e \in {OperationalError, KeyboardInterrupt} :
             /\ outcome' = [outcome EXCEPT !.pc = wrap_func("commit", e),
                                           !.did = Append(@, <<"commit", "failed">>),
                                           !.commit_raised = e,
                                           !.caught = e]
             /\ UNCHANGED <<store, session>>
    /\ UNCHANGED <<model, schema, filters, facade>>

\* self.db.session.rollback() in the except clause: what was staged is
\* dropped, or the rollback itself raises.
Rollback ==
    /\ outcome # Idle
    /\ outcome.pc = "rollback"
    /\ \/ /\ session' = <<>>
          /\ outcome' = [outcome EXCEPT !.pc = wrap_func("rollback", NoExc),
                                        !.did = Append(@, <<"rollback", "done">>)]
       \/ /\ session' = session
          /\ outcome' = [outcome EXCEPT !.pc = wrap_func("rollback", OperationalError),
                                        !.did = Append(@, <<"rollback", "failed">>),
                                        !.caught = OperationalError]
    /\ UNCHANGED <<model, schema, filters, facade, store>>

\* return result
Return ==
    /\ outcome # Idle
    /\ outcome.pc = "return"
    /\ outcome' = [outcome EXCEPT !.pc = "done", !.returned = outcome.result]
    /\ UNCHANGED <<model, schema, filters, facade, store, session>>

\* raise: the exception the except clause caught goes on to the caller.
Reraise ==
    /\ outcome # Idle
    /\ outcome.pc = "raise"
    /\ outcome' = [outcome EXCEPT !.pc = "done", !.raised = outcome.caught]
    /\ UNCHANGED <<model, schema, filters, facade, store, session>>

\* An exception no clause handles leaves wrap_func.
Propagate ==
    /\ outcome # Idle
    /\ outcome.pc = "propagate"
    /\ outcome' = [outcome EXCEPT !.pc = "done", !.raised = outcome.caught]
    /\ UNCHANGED <<model, schema, filters, facade, store, session>>

NextTransaction ==
    CallWrapped \/ RunFun \/ Commit \/ Rollback \/ Return \/ Reraise \/ Propagate

SpecTransaction == InitTransaction /\ [][NextTransaction]_vars

\* The call of the wrapped method has ended.
CallEnded == outcome.op = "transaction" /\ outcome.pc = "done"

\* What the try block raised: the method's exception, else the commit's.
TryRaised ==
    IF outcome.fun_raised # NoExc THEN outcome.fun_raised ELSE outcome.commit_raised

\* The calls of session.commit / session.rollback the wrapper made, by position.
Attempts(what) == {i \in 1..Len(outcome.did) : outcome.did[i][1] = what}

Succeeded(what) == \E i \in 1..Len(outcome.did) : outcome.did[i] = <<what, "done">>

\* C11: if the function returns normally the session is committed exactly
\* once after it and the result is returned with no rollback; if the function
\* or the commit raises, the session is rolled back and the same exception is
\* re-raised; no call ends with neither a successful commit nor a rollback.
C11_CommitOrRollback ==
    CallEnded =>
        /\ outcome.fun_raised = NoExc => Attempts("commit") = {1}
        /\ TryRaised = NoExc =>
              /\ outcome.returned = outcome.result
              /\ outcome.raised = NoExc
              /\ Attempts("rollback") = {}
        /\ TryRaised # NoExc =>
              /\ Succeeded("rollback")
              /\ outcome.raised = TryRaised
        /\ Succeeded("commit") \/ Succeeded("rollback")

\* C11, amended: after a normal return commit is called exactly once and, if
\* it succeeds, the result is returned with no rollback; if the function or
\* the commit raises an exception derived from Exception, rollback is called
\* once and, if it succeeds, the same exception is re-raised, while an
\* exception raised by the rollback takes its place; an exception not derived
\* from Exception reaches the caller with no rollback; only such a call, or a
\* call whose rollback failed, ends with neither a successful commit nor a
\* rollback.
C11_CommitOrRollbackOfException ==
    CallEnded =>
        /\ outcome.fun_raised = NoExc => Attempts("commit") = {1}
        /\ outcome.fun_raised # NoExc => Attempts("commit") = {}
        /\ TryRaised = NoExc =>
              /\ outcome.did = <<<<"commit", "done">>>>
              /\ outcome.returned = outcome.result
              /\ outcome.raised = NoExc
              /\ session = <<>>
        /\ (TryRaised # NoExc /\ TryRaised.base = "Exception") =>
              /\ Attempts("rollback") = {Len(outcome.did)}
              /\ outcome.returned = NoneVal
              /\ store = outcome.table
              /\ IF Succeeded("rollback")
                 THEN outcome.raised = TryRaised /\ session = <<>>
                 ELSE outcome.raised = OperationalError
        /\ (TryRaised # NoExc /\ TryRaised.base # "Exception") =>
              /\ Attempts("rollback") = {}
              /\ outcome.returned = NoneVal
              /\ outcome.raised = TryRaised
              /\ store = outcome.table
        /\ ~(Succeeded("commit") \/ Succeeded("rollback")) =>
              \/ TryRaised # NoExc /\ TryRaised.base # "Exception"
              \/ outcome.did[Len(outcome.did)] = <<"rollback", "failed">>

\* C11 witness: update raised NotFoundException, the rollback succeeded and
\* the caller got the NotFoundException.
C11_Witness ==
    /\ CallEnded
    /\ outcome.fun = "update"
    /\ outcome.fun_raised = Exc("NotFoundException", "Exception")
    /\ outcome.did = <<<<"rollback", "done">>>>
    /\ outcome.raised = outcome.fun_raised

\* The method returned, the commit wrote the staged instance and the caller
\* got the result.
C11_Committed ==
    /\ CallEnded
    /\ outcome.did = <<<<"commit", "done">>>>
    /\ outcome.returned = outcome.result
    /\ outcome.returned # NoneVal
    /\ store # outcome.table

\* The commit raised, the rollback dropped what was staged and the caller got
\* the commit's exception.
C11_CommitFailed ==
    /\ CallEnded
    /\ outcome.did = <<<<"commit", "failed">>, <<"rollback", "done">>>>
    /\ outcome.raised = OperationalError
    /\ session = <<>>

\* The method was interrupted and the call ended with what it had staged
\* neither committed nor rolled back.
C11_InterruptedWithoutRollback ==
    /\ CallEnded
    /\ outcome.commit_raised = KeyboardInterrupt
    /\ session # <<>>
    /\ ~Succeeded("commit")
    /\ ~Succeeded("rollback")

====
